---------------------------- MODULE Spec2Model ----------------------------
(***************************************************************************)
(* Dice-expression engine of no-more-mr-dice-guy.                          *)
(*                                                                         *)
(* Spec      : rolls.rs -- roll_expressions, regex_replace_all_overlapping,*)
(*             DiceRoll::from_str / check_dice / dice / val, run one       *)
(*             random draw at a time.                                      *)
(* FairSpec  : Spec with weak fairness of the steps of from_str (a running *)
(*             roll keeps running).                                        *)
(* SpecParse : rolls/options.rs -- parse applied to one dice-term body.    *)
(* SpecCmd   : commands/dice.rs -- roll_many and roll_bincount.            *)
(* SpecRoles : commands/roles.rs and store.rs -- two role-toggle commands  *)
(*             of one guild and the save tasks they spawn.                 *)
(*                                                                         *)
(* Text is a sequence of one-character strings.                            *)
(***************************************************************************)
EXTENDS Integers, Sequences, FiniteSets, TLC

(***************************************************************************)
(* Bounds of the model.                                                    *)
(***************************************************************************)
\* width in bits of the model's u32 / i32
IntBits == 3
\* entries a Standard-explode roll may hold before a further wave is cut off
MaxRolls == 6
\* consecutive maximum draws of one die counted exactly by the history
MaxK == 3

RECURSIVE Pow2(_)
Pow2(n) == IF n = 0 THEN 1 ELSE 2 * Pow2(n - 1)

\* u32::MAX and i32::MAX at the model's width
UMax == Pow2(IntBits) - 1
IMax == Pow2(IntBits - 1) - 1

\* Option::None of an Option<u32>
None == -1

(***************************************************************************)
(* Characters and numbers as text.                                         *)
(***************************************************************************)
DigitChars == <<"0", "1", "2", "3", "4", "5", "6", "7", "8", "9">>

IsDigit(c) == \E k \in 1..10 : DigitChars[k] = c

DigitVal(c) == (CHOOSE k \in 1..10 : DigitChars[k] = c) - 1

\* u32 Display / to_string
RECURSIVE NatStr(_)
NatStr(n) ==
    IF n < 10 THEN <<DigitChars[n + 1]>>
    ELSE NatStr(n \div 10) \o <<DigitChars[(n % 10) + 1]>>

\* i32 Display
IntStr(n) == IF n < 0 THEN <<"-">> \o NatStr(0 - n) ELSE NatStr(n)

RECURSIVE DigitsValue(_)
DigitsValue(ds) ==
    IF ds = <<>> THEN 0
    ELSE 10 * DigitsValue(SubSeq(ds, 1, Len(ds) - 1)) + DigitVal(ds[Len(ds)])

\* int_chars.parse::<u32>().ok(): None for the empty string and for a number
\* that does not fit
ParseU32(ds) ==
    IF ds = <<>> THEN None
    ELSE IF DigitsValue(ds) > UMax THEN None
    ELSE DigitsValue(ds)

\* index just after the maximal run of digits that starts at p
RECURSIVE DigitsEnd(_, _)
DigitsEnd(t, p) ==
    IF p <= Len(t) /\ IsDigit(t[p]) THEN DigitsEnd(t, p + 1) ELSE p

(***************************************************************************)
(* ROLL_REGEX  (^|[+\- (])(\d+d[^+\- )]+)($|[$+\- )])                      *)
(***************************************************************************)
LeadChars == {"+", "-", " ", "("}

\* the negated class of the body, [^+\- )]
BodyStop == {"+", "-", " ", ")"}

TrailChars == {"$", "+", "-", " ", ")"}

BodyChar(c) == c \notin BodyStop

\* index just after the maximal run of body characters that starts at p
RECURSIVE BodyEnd(_, _)
BodyEnd(t, p) ==
    IF p <= Len(t) /\ BodyChar(t[p]) THEN BodyEnd(t, p + 1) ELSE p

\* group 2 tried at b: \d+ d [^+\- )]+ followed by group 3; the index just
\* after the body, or 0 when the groups do not match there
TermAt(t, b) ==
    LET e == DigitsEnd(t, b) IN
    IF e > b /\ e + 1 <= Len(t) /\ t[e] = "d" /\ BodyChar(t[e + 1])
    THEN LET f == BodyEnd(t, e + 1) IN
         IF f > Len(t) \/ t[f] \in TrailChars THEN f ELSE 0
    ELSE 0

\* the match that starts at s, or a record with ok = FALSE
\* (first alternative of group 1 first: ^, then a boundary character)
MatchAt(t, s) ==
    IF s = 1 /\ TermAt(t, 1) # 0
    THEN LET f == TermAt(t, 1) IN
         [ok |-> TRUE, start |-> 1, bstart |-> 1, bend |-> f,
          stop |-> IF f > Len(t) THEN f ELSE f + 1]
    ELSE IF s <= Len(t) /\ t[s] \in LeadChars /\ TermAt(t, s + 1) # 0
    THEN LET f == TermAt(t, s + 1) IN
         [ok |-> TRUE, start |-> s, bstart |-> s + 1, bend |-> f,
          stop |-> IF f > Len(t) THEN f ELSE f + 1]
    ELSE [ok |-> FALSE, start |-> 0, bstart |-> 0, bend |-> 0, stop |-> 0]

\* Regex::replace works on the leftmost match only
RECURSIVE FindFrom(_, _)
FindFrom(t, s) ==
    IF s > Len(t)
    THEN [ok |-> FALSE, start |-> 0, bstart |-> 0, bend |-> 0, stop |-> 0]
    ELSE IF MatchAt(t, s).ok THEN MatchAt(t, s)
    ELSE FindFrom(t, s + 1)

FindMatch(t) == FindFrom(t, 1)

\* the three capture groups of a match
Caps1(t, m) == SubSeq(t, m.start, m.bstart - 1)
Caps2(t, m) == SubSeq(t, m.bstart, m.bend - 1)
Caps3(t, m) == SubSeq(t, m.bend, m.stop - 1)

\* Regex::replace: the text with match m replaced by rep
ReplaceMatch(t, m, rep) ==
    SubSeq(t, 1, m.start - 1) \o rep \o SubSeq(t, m.stop, Len(t))

(***************************************************************************)
(* DiceRoll::from_str, the parsing loop (rolls.rs 87-134).                 *)
(***************************************************************************)
\* an anyhow error: its message and the character or number it quotes
NoError == [kind |-> "none", ch |-> "", n |-> 0]

DefaultOpts ==
    [ok |-> TRUE, number_of_dice |-> 1, dice_size |-> 1, explode |-> "None",
     min |-> None, max |-> None, error |-> NoError]

\* the second '!' seen turns Standard into Compounding
ExplodeMarker(explode) ==
    IF explode = "None" THEN "Standard" ELSE "Compounding"

\* one arm of `match ty`
ApplyType(o, ty, val) ==
    CASE ty = "_" -> [o EXCEPT !.number_of_dice = val]
      [] ty = "d" -> [o EXCEPT !.dice_size = val]
      [] ty = "!" -> [o EXCEPT !.explode = ExplodeMarker(o.explode)]
      [] ty = "<" -> [o EXCEPT !.max = val]
      [] ty = ">" -> [o EXCEPT !.min = val]
      [] OTHER -> [o EXCEPT !.ok = FALSE,
                            !.error = [kind |-> "Unknown roll character",
                                        ch |-> ty, n |-> 0]]

\* one turn of the loop: parse_int_until from pos, apply it to the pending
\* type character ty, go on with the character that stopped the number
RECURSIVE ParseLoop(_, _, _, _)
ParseLoop(s, pos, ty, o) ==
    LET e == DigitsEnd(s, pos)
        parsed == ParseU32(SubSeq(s, pos, e - 1))
        val == IF parsed = None THEN 1 ELSE parsed
        o2 == ApplyType(o, ty, val)
    IN IF ~o2.ok THEN o2
       ELSE IF e > Len(s) THEN o2
       ELSE ParseLoop(s, e + 1, s[e], o2)

\* the loop followed by the two ensure! checks
ParseTerm(s) ==
    LET o == ParseLoop(s, 1, "_", DefaultOpts) IN
    IF ~o.ok THEN o
    ELSE IF ~(o.dice_size > 0)
    THEN [o EXCEPT !.ok = FALSE,
                   !.error = [kind |-> "Must have >= 0 sides on dice to roll",
                              ch |-> "", n |-> o.dice_size]]
    ELSE IF ~(o.number_of_dice > 0)
    THEN [o EXCEPT !.ok = FALSE,
                   !.error = [kind |-> "Must have >= 0 dice to roll",
                              ch |-> "", n |-> o.number_of_dice]]
    ELSE o

(***************************************************************************)
(* DiceRoll::check_dice, dice, val.  A DiceRoll is the options with the    *)
(* field rolls.                                                            *)
(***************************************************************************)
\* the lower bound taken as inclusive: a total equal to min is kept
check_dice_inclusive(r, v) ==
    IF r.min # None /\ v < r.min THEN FALSE
    ELSE IF r.max # None /\ v >= r.max THEN FALSE
    ELSE TRUE

check_dice(r, v) ==
    IF r.min # None /\ v <= r.min THEN FALSE
    ELSE IF r.max # None /\ v >= r.max THEN FALSE
    ELSE TRUE

\* one element of the list, with the ", " every element is followed by
DiceItem(r, it) ==
    (IF ~check_dice(r, it)
     THEN <<"~", "~">> \o NatStr(it) \o <<"~", "~">>
     ELSE NatStr(it)) \o <<",", " ">>

RECURSIVE DiceItems(_, _)
DiceItems(r, k) ==
    IF k > Len(r.rolls) THEN <<>>
    ELSE DiceItem(r, r.rolls[k]) \o DiceItems(r, k + 1)

\* trim_end_matches(", ")
RECURSIVE TrimEnd(_)
TrimEnd(t) ==
    IF Len(t) >= 2 /\ t[Len(t) - 1] = "," /\ t[Len(t)] = " "
    THEN TrimEnd(SubSeq(t, 1, Len(t) - 2))
    ELSE t

dice(r) == <<"[">> \o TrimEnd(DiceItems(r, 1)) \o <<"]">>

\* the exact sum of the kept totals
RECURSIVE KeptSum(_, _)
KeptSum(r, k) ==
    IF k > Len(r.rolls) THEN 0
    ELSE (IF check_dice(r, r.rolls[k]) THEN r.rolls[k] ELSE 0) + KeptSum(r, k + 1)

\* does some partial sum of sum::<u32>() leave the u32 range
RECURSIVE SumOverflows(_, _, _)
SumOverflows(r, k, acc) ==
    IF k > Len(r.rolls) THEN FALSE
    ELSE LET nxt == IF check_dice(r, r.rolls[k]) THEN acc + r.rolls[k] ELSE acc
         IN nxt > UMax \/ SumOverflows(r, k + 1, nxt)

\* u32 `as i32`
AsI32(u) == IF u > IMax THEN u - (UMax + 1) ELSE u

\* val() where no addition traps: wrapping u32 sum, reinterpreted as i32
val(r) == AsI32(KeptSum(r, 1) % (UMax + 1))

(***************************************************************************)
(* rolls/options.rs: parse.  DiceInt and the two limits are declared in    *)
(* the parent module, which names them but is not part of the sources at   *)
(* hand: DiceInt is a signed integer, the limits are exclusive upper       *)
(* bounds.                                                                 *)
(***************************************************************************)
\* width in bits of the model's DiceInt
DiceIntBits == 5

DiceIntMax == Pow2(DiceIntBits - 1) - 1

MAX_ROLLED_DICE == 4

MAX_DICE_SIDES == 5

\* str::trim, for the blanks the model uses
RECURSIVE TrimBlanks(_)
TrimBlanks(t) ==
    IF t # <<>> /\ Head(t) = " " THEN TrimBlanks(Tail(t))
    ELSE IF t # <<>> /\ t[Len(t)] = " " THEN TrimBlanks(SubSeq(t, 1, Len(t) - 1))
    ELSE t

\* ROLL_OPTION_DELIMITER_REGEX (\d+|!{1, 2}|F) tried at p: the index just
\* after the match, or 0
DelimiterAt(t, p) ==
    IF IsDigit(t[p]) THEN DigitsEnd(t, p)
    ELSE IF t[p] = "!" THEN (IF p + 1 <= Len(t) /\ t[p + 1] = "!" THEN p + 2 ELSE p + 1)
    ELSE IF t[p] = "F" THEN p + 1
    ELSE 0

\* split_keeping_delimiters: last is where the text not yet pushed starts,
\* p is where the next match is looked for
RECURSIVE SplitFrom(_, _, _)
SplitFrom(t, last, p) ==
    IF p > Len(t)
    THEN IF last <= Len(t) THEN <<SubSeq(t, last, Len(t))>> ELSE <<>>
    ELSE IF DelimiterAt(t, p) # 0
    THEN (IF last # p THEN <<SubSeq(t, last, p - 1)>> ELSE <<>>)
         \o <<SubSeq(t, p, DelimiterAt(t, p) - 1)>>
         \o SplitFrom(t, DelimiterAt(t, p), DelimiterAt(t, p))
    ELSE SplitFrom(t, last, p + 1)

split_keeping_delimiters(t) == SplitFrom(t, 1, 1)

\* str::parse::<DiceInt>() of a part: does it succeed, and its value
AllDigits(part) == part # <<>> /\ \A k \in 1..Len(part) : IsDigit(part[k])

ParsesDiceInt(part) == AllDigits(part) /\ DigitsValue(part) <= DiceIntMax

\* RollOption::parse
RollOptionParse(part) ==
    CASE part = <<"d">> -> [known |-> TRUE, valued |-> "DiceSides", explode |-> "None"]
      [] part = <<"<">> -> [known |-> TRUE, valued |-> "LessThan", explode |-> "None"]
      [] part = <<">">> -> [known |-> TRUE, valued |-> "GreaterThan", explode |-> "None"]
      [] part = <<"!">> -> [known |-> TRUE, valued |-> "", explode |-> "Standard"]
      [] part = <<"!", "!">> -> [known |-> TRUE, valued |-> "", explode |-> "Compounding"]
      [] OTHER -> [known |-> FALSE, valued |-> "", explode |-> "None"]

\* an error of parse: its message and the numbers the message is formatted with
ParseError(kind, limit, tried) ==
    [kind |-> kind, limit |-> limit, tried |-> tried]

NoParseError == ParseError("none", 0, 0)

Failed(o, e) == [o EXCEPT !.ok = FALSE, !.error = e]

\* the first ensure! on the sides: value < MAX_DICE_SIDES
SidesBelowLimit(value) == value < MAX_DICE_SIDES

\* the count accepted although it is the limit
CountInRangeInclusive(n) == n > 0 /\ n <= MAX_ROLLED_DICE

\* the two ensure! on the count
CountInRange(n) == n > 0 /\ n < MAX_ROLLED_DICE

\* (1..=value).collect()
RECURSIVE FacesUpTo(_)
FacesUpTo(n) == IF n <= 0 THEN <<>> ELSE Append(FacesUpTo(n - 1), n)

\* the loop over parts[1..]; sides_set tells Some(dice_sides) from None
RECURSIVE OptionLoop(_, _, _)
OptionLoop(parts, k, o) ==
    IF k > Len(parts) THEN o
    ELSE LET option == RollOptionParse(parts[k]) IN
         IF ~option.known
         THEN Failed(o, ParseError("Unknown roll option", 0, 0))
         ELSE IF option.valued = ""
         THEN OptionLoop(parts, k + 1, [o EXCEPT !.explode = option.explode])
         ELSE IF k + 1 > Len(parts)
         THEN Failed(o, ParseError("Missing value", 0, 0))
         ELSE IF option.valued = "DiceSides" /\ parts[k + 1] = <<"F">>
         THEN OptionLoop(parts, k + 2, [o EXCEPT !.sides_set = TRUE,
                                                 !.dice_sides = <<-3, 0, 3>>])
         ELSE IF ~ParsesDiceInt(parts[k + 1])
         THEN Failed(o, ParseError("ParseIntError", 0, 0))
         ELSE LET value == DigitsValue(parts[k + 1]) IN
              CASE option.valued = "DiceSides" ->
                     IF ~SidesBelowLimit(value)
                     THEN Failed(o, ParseError("Must have < {} dice sides to roll",
                                               MAX_DICE_SIDES, o.number_of_dice))
                     ELSE OptionLoop(parts, k + 2,
                                     [o EXCEPT !.sides_set = TRUE,
                                               !.dice_sides = FacesUpTo(value)])
                [] option.valued = "LessThan" ->
                     OptionLoop(parts, k + 2, [o EXCEPT !.max = value])
                [] option.valued = "GreaterThan" ->
                     OptionLoop(parts, k + 2, [o EXCEPT !.min = value])

\* the ensure! checks after the loop
CheckOptions(o) ==
    IF ~o.sides_set
    THEN Failed(o, ParseError("Must set dice sides (eg d20)", 0, 0))
    ELSE IF o.dice_sides = <<>>
    THEN Failed(o, ParseError("Must have >= 0 sides on dice to roll", 0, 0))
    ELSE IF ~(o.number_of_dice > 0)
    THEN Failed(o, ParseError("Must have >= 0 dice to roll", 0, o.number_of_dice))
    ELSE IF ~CountInRange(o.number_of_dice)
    THEN Failed(o, ParseError("Must have < {} dice to roll",
                              MAX_ROLLED_DICE, o.number_of_dice))
    ELSE IF ~(Len(o.dice_sides) < MAX_DICE_SIDES)
    THEN Failed(o, ParseError("Must have < {} dice sides to roll",
                              MAX_DICE_SIDES, o.number_of_dice))
    ELSE o

NoOptions ==
    [ok |-> TRUE, number_of_dice |-> 0, sides_set |-> FALSE, dice_sides |-> <<>>,
     explode |-> "None", min |-> None, max |-> None, error |-> NoParseError]

\* options::parse
parse(str) ==
    LET t == TrimBlanks(str)
        parts == split_keeping_delimiters(t)
    IN IF t = <<>>
       THEN Failed(NoOptions, ParseError("Can't roll an empty string.", 0, 0))
       ELSE IF ~ParsesDiceInt(parts[1])
       THEN Failed(NoOptions, ParseError("Can't parse number of dice", 0, 0))
       ELSE LET o == OptionLoop(parts, 2,
                        [NoOptions EXCEPT !.number_of_dice = DigitsValue(parts[1])])
            IN IF o.ok THEN CheckOptions(o) ELSE o

(***************************************************************************)
(* The expressions the model evaluates.                                    *)
(***************************************************************************)
Bodies ==
    { <<"1", "d", "1">>,
      <<"2", "d", "2">>,
      <<"1", "d", "2", "!">>,
      <<"1", "d", "1", "!">>,
      <<"2", "d", "2", "!">>,
      <<"1", "d", "3", "!", "!">>,
      <<"2", "d", "2", "!", "!">>,
      <<"1", "d", "1", "!", "!">>,
      <<"2", "d", "3">>,
      <<"3", "d", "3">>,
      <<"2", "d", "2", "<", "2">>,
      <<"2", "d", "3", ">", "1">>,
      <<"3", "d", "3", ">", "1", "<", "3">>,
      <<"1", "d", "x">>,
      <<"2", "d", "F">>,
      <<"0", "d", "2">>,
      <<"1", "d", "0">>,
      <<"9", "d", "2">>,
      <<"1", "d", "7">>,
      <<"1", "d", "2", "!", "!", "!">>,
      <<"1", "d", "!">> }

PairBodies ==
    { <<"1", "d", "1">>,
      <<"1", "d", "2", "!">>,
      <<"2", "d", "2", "<", "2">>,
      <<"1", "d", "2", "!", "!">>,
      <<"1", "d", "x">>,
      <<"1", "d", "y">>,
      <<"2", "d", "3">> }

Seps ==
    { <<"+">>,
      <<" ">>,
      <<" ", "+", " ">> }

\* text put before and after a single term
Wraps ==
    { << <<>>, <<>> >>,
      << <<"(">>, <<")">> >>,
      << <<"2", "+">>, <<>> >>,
      << <<>>, <<"*", "2">> >> }

Singles == { w[1] \o b \o w[2] : w \in Wraps, b \in Bodies }

Doubles ==
    { <<"(">> \o a \o sp \o b \o <<")">> : a \in PairBodies, sp \in Seps, b \in PairBodies }

Specials ==
    { <<"2", " ", "1", "d", "x", " ", "1", "d", "2">>,
      <<"(", "1", "d", "2", "*", "2", ")", "+", "1", "d", "1">>,
      <<"-", "1", "d", "-", "1">>,
      <<"1", "d", "2", "(", "1", "d", "1", ")">>,
      <<"2", "*", "1", "d", "2">>,
      <<"1", "d", "1", ")", "1", "d", "1">>,
      <<"1", "2">>,
      <<"1", "d", " ", "1", "d", "1">>,
      <<"1", " ", "1", "d", "x", " ", "d", "2">>,
      <<"(", "2", "d", "2", "!", "+", "2", "d", "2", "!", "!", ")">>,
      <<"(", "1", "d", "1", " ", "/", " ", "2", ")">> }

Exprs == Singles \cup Doubles \cup Specials

(***************************************************************************)
(* commands/dice.rs: what roll_many and roll_bincount are run with.  A     *)
(* text is kept as its length: the commands only measure, join and trim.   *)
(***************************************************************************)
\* largest count below the limits that the model runs
MaxCount == 5

\* serenity's MESSAGE_CODE_LIMIT, scaled down with the lengths of the lines
MESSAGE_CODE_LIMIT == 12

\* the counts the commands are called with: the small ones, and one above
\* the limit of the command
Counts(c) == (0..MaxCount) \cup (IF c = "roll_many" THEN {101} ELSE {501})

\* lengths of a line format!("{}: {}\n", i, roll_expression(arg)?)
LineLens == {5, 8, 11, 12, 14}

\* the values roll_expression_value returns, in ascending order
BinValues == <<1, 20, 300, 4000, 50000>>

\* an empty HashMap, as the count of every key
NoCounts == [k \in 1..Len(BinValues) |-> 0]

(***************************************************************************)
(* commands/roles.rs and store.rs: what the role-toggle commands of one    *)
(* guild are run with.  A RolesConfig is its roles, a sequence of          *)
(* <<role, emoji>>; current_role_message stays None.                       *)
(***************************************************************************)
\* the two commands that run at the same time
Cmd == {1, 2}

\* the commands: add_role_toggle <emoji> <role>, remove_role_toggle <emoji>
Ops ==
    { [kind |-> "add", role |-> "r1", emoji |-> "e1"],
      [kind |-> "add", role |-> "r2", emoji |-> "e2"],
      [kind |-> "add", role |-> "r1", emoji |-> "e0"],
      [kind |-> "remove", role |-> "", emoji |-> "e0"],
      [kind |-> "remove", role |-> "", emoji |-> "e1"] }

NoOp == [kind |-> "none", role |-> "", emoji |-> ""]

\* the configurations stored before the commands: RolesConfig::default() and
\* one toggle
StoredConfigs == { <<>>, << <<"r0", "e0">> >> }

\* the guild has no entry in the HashMap
NoEntry == [some |-> FALSE, roles |-> <<>>]

Entry(cfg) == [some |-> TRUE, roles |-> cfg]

(***************************************************************************)
(* State.                                                                  *)
(***************************************************************************)
VARIABLES
    msg,            \* roll_expressions: the expression text
    build,          \* "debug": an integer overflow panics; "release": it wraps
    pc,             \* "display", "rolling", "value", "done", "error", "panic";
                    \* "beyond": rolling waves whose entries are not stored,
                    \* "cut": from_str returned from such a wave
    text,           \* regex_replace_all_overlapping: msg of the running pass
    rolls,          \* roll_expressions: the rolled terms
    idx,            \* the callbacks' idx
    err,            \* roll_expressions: err (NoError is Ok(()))
    result_rolled,  \* the display string
    result_valued,  \* the value string
    cap,            \* the match whose callback is running from_str
    opt,            \* from_str: the parsed fields
    acc,            \* from_str: rolls
    dice_to_roll,   \* from_str: dice_to_roll
    maxed,          \* from_str: maxed
    i,              \* from_str: dice rolled in the running wave
    current_roll,   \* from_str: current_roll
    total,          \* from_str: total
    rpc,            \* from_str: "for" between two dice, "compound" in the inner while
    dcalls,         \* history: the callback invocations of the display pass
    vcalls,         \* history: the callback invocations of the value pass
    raised,         \* history: the errors from_str returned, in order
    kcur,           \* history: maximum draws of the die being rolled (exact up to MaxK)
    dieLog,         \* history: for each entry of acc its draws, as k, r and total
    drew,           \* history: the passes in which a random number was drawn
    pin,            \* options::parse: count, sides and the rest of the body parsed
    pbody,          \* options::parse: str
    ppc,            \* "idle", "parse", "roll"
    pres,           \* options::parse: the Result returned
    pdrawn,         \* the faces drawn for the parsed term
    cmd,            \* the command running: "roll_many", "roll_bincount", "none"
    count,          \* roll_many / roll_bincount: count
    cpc,            \* "idle", "start", "loop", "send", "ok", "err"
    ci,             \* the loop variable i of roll_many; rolls made by roll_bincount
    result,         \* result, as its length
    messages,       \* messages, each as its length
    counts,         \* roll_bincount: counts
    si,             \* index of the next message of `for message in messages`
    said,           \* history: the contents handed to say, as lengths, and the outcome
    lines,          \* history: the lengths of the lines produced
    nrolls,         \* history: calls of roll_expression / roll_expression_value
    top,            \* roles.rs: the role-toggle command each task runs
    tpc,            \* each command's position: "idle", "get", "load", "insert",
                    \* "spawn", "write", "tail", "done", "failed"
    tcfg,           \* each command's cfg
    tloaded,        \* get_guild_data: each command's loaded
    guild_data,     \* Persistent::guild_data, the entry of the guild
    saves,          \* the tasks save_data spawned, in the order spawned
    inodes,         \* the store: the files' contents, by inode
    temp_loc,       \* the inode the path temp_loc names, 0 when there is none
    loc,            \* the inode the path loc names, 0 when there is none
    stored          \* history: the configuration stored before the commands

exprVars == <<msg, build, pc, text, rolls, idx, err, result_rolled, result_valued>>
rollVars == <<cap, opt, acc, dice_to_roll, maxed, i, current_roll, total, rpc>>
histVars == <<dcalls, vcalls, raised, kcur, dieLog, drew>>
parseVars == <<pin, pbody, ppc, pres, pdrawn>>
cmdVars == <<cmd, count, cpc, ci, result, messages, counts, si, said, lines, nrolls>>
roleVars == <<top, tpc, tcfg, tloaded, guild_data, saves, inodes, temp_loc, loc, stored>>
vars == <<exprVars, rollVars, histVars, parseVars, cmdVars, roleVars>>

NoMatch == [ok |-> FALSE, start |-> 0, bstart |-> 0, bend |-> 0, stop |-> 0]

Init ==
    /\ msg \in Exprs
    /\ build \in {"debug", "release"}
    /\ pc = "display"
    /\ text = msg
    /\ rolls = <<>>
    /\ idx = 0
    /\ err = NoError
    /\ result_rolled = <<>>
    /\ result_valued = <<>>
    /\ cap = NoMatch
    /\ opt = DefaultOpts
    /\ acc = <<>>
    /\ dice_to_roll = 0
    /\ maxed = 0
    /\ i = 0
    /\ current_roll = 0
    /\ total = 0
    /\ rpc = "for"
    /\ dcalls = <<>>
    /\ vcalls = <<>>
    /\ raised = <<>>
    /\ kcur = 0
    /\ dieLog = <<>>
    /\ drew = {}
    /\ pin = <<>>
    /\ pbody = <<>>
    /\ ppc = "idle"
    /\ pres = NoOptions
    /\ pdrawn = <<>>
    /\ cmd = "none"
    /\ count = 0
    /\ cpc = "idle"
    /\ ci = 0
    /\ result = 0
    /\ messages = <<>>
    /\ counts = NoCounts
    /\ si = 0
    /\ said = <<>>
    /\ lines = <<>>
    /\ nrolls = 0
    /\ top = [c \in Cmd |-> NoOp]
    /\ tpc = [c \in Cmd |-> "idle"]
    /\ tcfg = [c \in Cmd |-> <<>>]
    /\ tloaded = [c \in Cmd |-> <<>>]
    /\ guild_data = NoEntry
    /\ saves = <<>>
    /\ inodes = <<>>
    /\ temp_loc = 0
    /\ loc = 0
    /\ stored = <<>>

(***************************************************************************)
(* roll_expressions, display pass (rolls.rs 21-40).                        *)
(***************************************************************************)
\* the record a callback invocation leaves in the history
Call(t, m, ok, rep) ==
    [body |-> Caps2(t, m), caps1 |-> Caps1(t, m), caps3 |-> Caps3(t, m),
     ok |-> ok, rep |-> rep]

\* format!("{}{}{}", &caps[1], roll.dice(), &caps[3])
DisplayRep(t, m, r) == Caps1(t, m) \o dice(r) \o Caps3(t, m)

\* format!("{}{}{}", &caps[1], rolls[idx].val(), &caps[3])
ValueRep(t, m, r) == Caps1(t, m) \o IntStr(val(r)) \o Caps3(t, m)

\* the leftmost dice term of the running pass and what from_str parses of it
CurMatch == FindMatch(text)
CurOpts == ParseTerm(Caps2(text, CurMatch))

\* the error kept when from_str fails and err may already hold one
KeepError(old, new) == new

\* the scan finds a term that from_str rejects: the callback stores the error
\* and returns "", the loop goes on
DisplayParseError ==
    /\ pc = "display"
    /\ CurMatch.ok
    /\ ~CurOpts.ok
    /\ err' = KeepError(err, CurOpts.error)
    /\ raised' = Append(raised, CurOpts.error)
    /\ text' = ReplaceMatch(text, CurMatch, <<>>)
    /\ dcalls' = Append(dcalls, Call(text, CurMatch, FALSE, <<>>))
    /\ UNCHANGED <<msg, build, pc, rolls, idx, result_rolled, result_valued>>
    /\ UNCHANGED rollVars
    /\ UNCHANGED <<vcalls, kcur, dieLog, drew>>
    /\ UNCHANGED parseVars
    /\ UNCHANGED cmdVars
    /\ UNCHANGED roleVars

\* the scan finds a term that parses: from_str enters its rolling loop
DisplayStartRoll ==
    /\ pc = "display"
    /\ CurMatch.ok
    /\ CurOpts.ok
    /\ cap' = CurMatch
    /\ opt' = CurOpts
    /\ dice_to_roll' = CurOpts.number_of_dice
    /\ pc' = "rolling"
    /\ acc' = <<>>
    /\ maxed' = 0
    /\ i' = 0
    /\ rpc' = "for"
    /\ kcur' = 0
    /\ dieLog' = <<>>
    /\ UNCHANGED <<msg, build, text, rolls, idx, err, result_rolled, result_valued>>
    /\ UNCHANGED <<current_roll, total>>
    /\ UNCHANGED <<dcalls, vcalls, raised, drew>>
    /\ UNCHANGED parseVars
    /\ UNCHANGED cmdVars
    /\ UNCHANGED roleVars

\* the scan finds nothing: the loop breaks, err? returns the stored error,
\* otherwise the value pass starts over the original text
DisplayEnd ==
    /\ pc = "display"
    /\ ~CurMatch.ok
    /\ IF err # NoError
       THEN /\ pc' = "error"
            /\ UNCHANGED <<text, idx, result_rolled>>
       ELSE /\ pc' = "value"
            /\ result_rolled' = text
            /\ text' = msg
            /\ idx' = 0
    /\ UNCHANGED <<msg, build, rolls, err, result_valued>>
    /\ UNCHANGED rollVars
    /\ UNCHANGED histVars
    /\ UNCHANGED parseVars
    /\ UNCHANGED cmdVars
    /\ UNCHANGED roleVars

(***************************************************************************)
(* DiceRoll::from_str, the rolling loop (rolls.rs 136-159), and the rest   *)
(* of the display callback once from_str has returned (rolls.rs 33-36).    *)
(***************************************************************************)
\* a wave with an inclusive range, 0..=number_of_dice
WaveSizeInclusive(number_of_dice, to_roll) == number_of_dice + 1

\* dice rolled by one wave: `for _ in 0..number_of_dice`
WaveSize(number_of_dice, to_roll) == number_of_dice

\* dice_to_roll after a wave
NextDiceToRoll(explode, mx) == IF explode = "Standard" THEN mx ELSE 0

\* does the inner while of a die that showed its maximum run
Compounds(explode) == explode = "Compounding"

Min2(a, b) == IF a < b THEN a ELSE b

\* the first draw of one die; a die that does not compound is pushed at once.
\* gen_range(1, dice_size + 1) panics when dice_size + 1 leaves the u32 range
\* (the addition traps, or it wraps to 0 and the range 1..0 is rejected).
RollDie ==
    /\ pc = "rolling"
    /\ rpc = "for"
    /\ i < WaveSize(opt.number_of_dice, dice_to_roll)
    /\ IF opt.dice_size + 1 > UMax
       THEN /\ pc' = "panic"
            /\ UNCHANGED <<acc, maxed, i, current_roll, total, rpc, kcur, dieLog, drew>>
       ELSE \E r \in 1..opt.dice_size :
            /\ pc' = pc
            /\ current_roll' = r
            /\ total' = r
            /\ drew' = drew \cup {"display"}
            /\ maxed' = IF r = opt.dice_size THEN maxed + 1 ELSE maxed
            /\ IF r = opt.dice_size /\ Compounds(opt.explode)
               THEN /\ rpc' = "compound"
                    /\ kcur' = 1
                    /\ UNCHANGED <<acc, i, dieLog>>
               ELSE /\ rpc' = "for"
                    /\ kcur' = 0
                    /\ acc' = Append(acc, r)
                    /\ i' = i + 1
                    /\ dieLog' = Append(dieLog, [k |-> 0, r |-> r, total |-> r])
    /\ UNCHANGED <<msg, build, text, rolls, idx, err, result_rolled, result_valued>>
    /\ UNCHANGED <<cap, opt, dice_to_roll>>
    /\ UNCHANGED <<dcalls, vcalls, raised>>
    /\ UNCHANGED parseVars
    /\ UNCHANGED cmdVars
    /\ UNCHANGED roleVars

\* total += current_roll: traps in a debug build, wraps in a release build
AddU32(b, a, x) ==
    IF a + x > UMax
    THEN IF b = "debug" THEN None ELSE (a + x) % (UMax + 1)
    ELSE a + x

\* one turn of `while current_roll == dice_size`
CompoundDraw ==
    /\ pc = "rolling"
    /\ rpc = "compound"
    /\ \E r \in 1..opt.dice_size :
         LET sum == AddU32(build, total, r) IN
         /\ current_roll' = r
         /\ drew' = drew \cup {"display"}
         /\ IF sum = None
            THEN /\ pc' = "panic"
                 /\ UNCHANGED <<total, acc, i, rpc, kcur, dieLog>>
            ELSE /\ pc' = pc
                 /\ total' = sum
                 /\ IF r = opt.dice_size
                    THEN /\ kcur' = Min2(kcur + 1, MaxK + 1)
                         /\ UNCHANGED <<acc, i, rpc, dieLog>>
                    ELSE /\ kcur' = 0
                         /\ rpc' = "for"
                         /\ acc' = Append(acc, sum)
                         /\ i' = i + 1
                         /\ dieLog' = Append(dieLog, [k |-> kcur, r |-> r, total |-> sum])
    /\ UNCHANGED <<msg, build, text, rolls, idx, err, result_rolled, result_valued>>
    /\ UNCHANGED <<cap, opt, dice_to_roll, maxed>>
    /\ UNCHANGED <<dcalls, vcalls, raised>>
    /\ UNCHANGED parseVars
    /\ UNCHANGED cmdVars
    /\ UNCHANGED roleVars

\* a wave ends with dice still to roll: the outer while goes round again
NextWave ==
    /\ pc = "rolling"
    /\ rpc = "for"
    /\ i = WaveSize(opt.number_of_dice, dice_to_roll)
    /\ NextDiceToRoll(opt.explode, maxed) > 0
    /\ Len(acc) + WaveSize(opt.number_of_dice, NextDiceToRoll(opt.explode, maxed)) <= MaxRolls
    /\ dice_to_roll' = NextDiceToRoll(opt.explode, maxed)
    /\ maxed' = 0
    /\ i' = 0
    /\ UNCHANGED exprVars
    /\ UNCHANGED <<cap, opt, acc, current_roll, total, rpc>>
    /\ UNCHANGED histVars
    /\ UNCHANGED parseVars
    /\ UNCHANGED cmdVars
    /\ UNCHANGED roleVars

\* a wave ends with dice still to roll and the entries stored are at the
\* bound: the loop goes on, its further entries are not stored
WaveBeyond ==
    /\ pc = "rolling"
    /\ rpc = "for"
    /\ i = WaveSize(opt.number_of_dice, dice_to_roll)
    /\ NextDiceToRoll(opt.explode, maxed) > 0
    /\ Len(acc) + WaveSize(opt.number_of_dice, NextDiceToRoll(opt.explode, maxed)) > MaxRolls
    /\ pc' = "beyond"
    /\ dice_to_roll' = NextDiceToRoll(opt.explode, maxed)
    /\ maxed' = 0
    /\ i' = 0
    /\ UNCHANGED <<msg, build, text, rolls, idx, err, result_rolled, result_valued>>
    /\ UNCHANGED <<cap, opt, acc, current_roll, total, rpc>>
    /\ UNCHANGED histVars
    /\ UNCHANGED parseVars
    /\ UNCHANGED cmdVars
    /\ UNCHANGED roleVars

\* one die of a wave beyond the bound (only a Standard roll has such waves)
BeyondRoll ==
    /\ pc = "beyond"
    /\ i < WaveSize(opt.number_of_dice, dice_to_roll)
    /\ \E r \in 1..opt.dice_size :
         /\ current_roll' = r
         /\ total' = r
         /\ maxed' = IF r = opt.dice_size THEN maxed + 1 ELSE maxed
         /\ i' = i + 1
    /\ UNCHANGED exprVars
    /\ UNCHANGED <<cap, opt, acc, dice_to_roll, rpc>>
    /\ UNCHANGED histVars
    /\ UNCHANGED parseVars
    /\ UNCHANGED cmdVars
    /\ UNCHANGED roleVars

\* a wave beyond the bound ends with dice still to roll
BeyondWave ==
    /\ pc = "beyond"
    /\ i = WaveSize(opt.number_of_dice, dice_to_roll)
    /\ NextDiceToRoll(opt.explode, maxed) > 0
    /\ dice_to_roll' = NextDiceToRoll(opt.explode, maxed)
    /\ maxed' = 0
    /\ i' = 0
    /\ UNCHANGED exprVars
    /\ UNCHANGED <<cap, opt, acc, current_roll, total, rpc>>
    /\ UNCHANGED histVars
    /\ UNCHANGED parseVars
    /\ UNCHANGED cmdVars
    /\ UNCHANGED roleVars

\* a wave beyond the bound ends with nothing left to roll: from_str returns
\* a roll with more entries than are stored, which is not followed further
BeyondFinish ==
    /\ pc = "beyond"
    /\ i = WaveSize(opt.number_of_dice, dice_to_roll)
    /\ NextDiceToRoll(opt.explode, maxed) = 0
    /\ pc' = "cut"
    /\ dice_to_roll' = 0
    /\ UNCHANGED <<msg, build, text, rolls, idx, err, result_rolled, result_valued>>
    /\ UNCHANGED <<cap, opt, acc, maxed, i, current_roll, total, rpc>>
    /\ UNCHANGED histVars
    /\ UNCHANGED parseVars
    /\ UNCHANGED cmdVars
    /\ UNCHANGED roleVars

\* the DiceRoll from_str returns
Rolled(o, rs) ==
    [number_of_dice |-> o.number_of_dice, dice_size |-> o.dice_size,
     explode |-> o.explode, min |-> o.min, max |-> o.max, rolls |-> rs]

\* a wave ends with nothing left to roll: from_str returns Ok, the callback
\* renders the roll, pushes it and returns the replacement
FinishRoll ==
    /\ pc = "rolling"
    /\ rpc = "for"
    /\ i = WaveSize(opt.number_of_dice, dice_to_roll)
    /\ NextDiceToRoll(opt.explode, maxed) = 0
    /\ LET roll == Rolled(opt, acc)
           rep == DisplayRep(text, cap, roll)
       IN /\ rolls' = Append(rolls, roll)
          /\ text' = ReplaceMatch(text, cap, rep)
          /\ dcalls' = Append(dcalls, Call(text, cap, TRUE, rep))
    /\ dice_to_roll' = 0
    /\ idx' = idx + 1
    /\ pc' = "display"
    /\ UNCHANGED <<msg, build, err, result_rolled, result_valued>>
    /\ UNCHANGED <<cap, opt, acc, maxed, i, current_roll, total, rpc>>
    /\ UNCHANGED <<vcalls, raised, kcur, dieLog, drew>>
    /\ UNCHANGED parseVars
    /\ UNCHANGED cmdVars
    /\ UNCHANGED roleVars

(***************************************************************************)
(* roll_expressions, value pass (rolls.rs 42-51).                          *)
(***************************************************************************)
\* the value callback keeps rendering the first roll
ValueIndexStuck(n) == 1

\* the roll the value callback renders
ValueIndex(n) == n + 1

\* the scan finds a term: rolls[idx] must exist, and the sum inside val()
\* traps in a debug build when it leaves the u32 range
ValueReplace ==
    /\ pc = "value"
    /\ CurMatch.ok
    /\ IF ValueIndex(idx) \notin 1..Len(rolls)
       THEN /\ pc' = "panic"
            /\ UNCHANGED <<text, idx, vcalls>>
       ELSE IF build = "debug" /\ SumOverflows(rolls[ValueIndex(idx)], 1, 0)
       THEN /\ pc' = "panic"
            /\ UNCHANGED <<text, idx, vcalls>>
       ELSE /\ pc' = pc
            /\ text' = ReplaceMatch(text, CurMatch,
                                    ValueRep(text, CurMatch, rolls[ValueIndex(idx)]))
            /\ idx' = idx + 1
            /\ vcalls' = Append(vcalls,
                   Call(text, CurMatch, TRUE,
                        ValueRep(text, CurMatch, rolls[ValueIndex(idx)])))
    /\ UNCHANGED <<msg, build, rolls, err, result_rolled, result_valued>>
    /\ UNCHANGED rollVars
    /\ UNCHANGED <<dcalls, raised, kcur, dieLog, drew>>
    /\ UNCHANGED parseVars
    /\ UNCHANGED cmdVars
    /\ UNCHANGED roleVars

\* the scan finds nothing: Ok((result_rolled, result_valued))
ValueEnd ==
    /\ pc = "value"
    /\ ~CurMatch.ok
    /\ result_valued' = text
    /\ pc' = "done"
    /\ UNCHANGED <<msg, build, text, rolls, idx, err, result_rolled>>
    /\ UNCHANGED rollVars
    /\ UNCHANGED histVars
    /\ UNCHANGED parseVars
    /\ UNCHANGED cmdVars
    /\ UNCHANGED roleVars

Next ==
    \/ DisplayParseError
    \/ DisplayStartRoll
    \/ DisplayEnd
    \/ RollDie
    \/ CompoundDraw
    \/ NextWave
    \/ WaveBeyond
    \/ BeyondRoll
    \/ BeyondWave
    \/ BeyondFinish
    \/ FinishRoll
    \/ ValueReplace
    \/ ValueEnd

Spec == Init /\ [][Next]_vars

\* a from_str call that is rolling keeps running: none of its steps waits
\* for anything outside the call
FairSpec ==
    /\ Spec
    /\ WF_vars(RollDie)
    /\ WF_vars(CompoundDraw)
    /\ WF_vars(NextWave)
    /\ WF_vars(WaveBeyond)
    /\ WF_vars(BeyondRoll)
    /\ WF_vars(BeyondWave)
    /\ WF_vars(BeyondFinish)
    /\ WF_vars(FinishRoll)

(***************************************************************************)
(* The dice terms of a text, found by one scan from left to right over the *)
(* text as it stands: a term's trailing boundary may be the leading        *)
(* boundary of the next term.                                              *)
(***************************************************************************)
RECURSIVE OrigTermsFrom(_, _)
OrigTermsFrom(t, s) ==
    IF s > Len(t) THEN <<>>
    ELSE IF MatchAt(t, s).ok
    THEN <<MatchAt(t, s)>> \o OrigTermsFrom(t, MatchAt(t, s).bend)
    ELSE OrigTermsFrom(t, s + 1)

OrigTerms(t) == OrigTermsFrom(t, 1)

OrigBodies(t) == [k \in 1..Len(OrigTerms(t)) |-> Caps2(t, OrigTerms(t)[k])]

CallBodies(calls) == [k \in 1..Len(calls) |-> calls[k].body]

\* the text with the body of its k-th term replaced by reps[k], all at once
RECURSIVE Splice(_, _, _, _)
Splice(t, pos, ms, reps) ==
    IF ms = <<>> THEN SubSeq(t, pos, Len(t))
    ELSE SubSeq(t, pos, Head(ms).bstart - 1) \o Head(reps)
         \o Splice(t, Head(ms).bend, Tail(ms), Tail(reps))

\* the fields from_str parsed, as a returned DiceRoll carries them
SameOptions(r, o) ==
    /\ o.ok
    /\ r.number_of_dice = o.number_of_dice
    /\ r.dice_size = o.dice_size
    /\ r.explode = o.explode
    /\ r.min = o.min
    /\ r.max = o.max

(***************************************************************************)
(* C1: when roll_expressions returns Ok, every dice term of the original   *)
(* text was rolled exactly once, in the display pass only; the value pass   *)
(* made as many replacements as the display pass; the k-th replacement of   *)
(* the display pass is dice() and the k-th of the value pass is val() of    *)
(* the same k-th roll, which is the roll of the k-th dice term of the       *)
(* original text; so both results are the original text with its k-th term  *)
(* replaced by the rendering of roll k.                                     *)
(***************************************************************************)
Thm_C1 ==
    pc = "done" =>
        LET ts == OrigTerms(msg) IN
        /\ Len(rolls) = Len(ts)
        /\ Len(dcalls) = Len(ts)
        /\ Len(vcalls) = Len(ts)
        /\ drew \subseteq {"display"}
        /\ \A k \in 1..Len(ts) :
             /\ dcalls[k].body = Caps2(msg, ts[k])
             /\ vcalls[k].body = Caps2(msg, ts[k])
             /\ SameOptions(rolls[k], ParseTerm(Caps2(msg, ts[k])))
             /\ dcalls[k].rep = Caps1(msg, ts[k]) \o dice(rolls[k]) \o Caps3(msg, ts[k])
             /\ vcalls[k].rep = Caps1(msg, ts[k]) \o IntStr(val(rolls[k])) \o Caps3(msg, ts[k])
        /\ result_rolled = Splice(msg, 1, ts, [k \in 1..Len(ts) |-> dice(rolls[k])])
        /\ result_valued = Splice(msg, 1, ts, [k \in 1..Len(ts) |-> IntStr(val(rolls[k]))])

\* two terms that share a boundary character were rolled differently and
\* both strings were returned
Witness_C1 ==
    /\ pc = "done"
    /\ Len(rolls) = 2
    /\ dcalls[1].caps3 = <<"+">>
    /\ dcalls[2].caps1 = <<"+">>
    /\ val(rolls[1]) # val(rolls[2])
    /\ \E k \in 1..Len(rolls[1].rolls) : ~check_dice(rolls[1], rolls[1].rolls[k])

(***************************************************************************)
(* C2: a pass of regex_replace_all_overlapping calls the callback exactly  *)
(* once for each dice term of the original text, in order, and the text it *)
(* returns holds no dice term.                                             *)
(***************************************************************************)
Cex_C2 ==
    /\ pc \in {"value", "done", "error"} => CallBodies(dcalls) = OrigBodies(msg)
    /\ pc = "done" =>
         /\ CallBodies(vcalls) = OrigBodies(msg)
         /\ ~FindMatch(result_rolled).ok
         /\ ~FindMatch(result_valued).ok

(***************************************************************************)
(* C3: no arithmetic operator is ever part of a captured dice-term body: a *)
(* term followed by * or / is captured without the operator.               *)
(***************************************************************************)
Cex_C3 ==
    \A k \in 1..Len(dcalls) :
        \A j \in 1..Len(dcalls[k].body) : dcalls[k].body[j] \notin {"*", "/"}

(***************************************************************************)
(* C4: the error roll_expressions returns is the first one a term raised.  *)
(***************************************************************************)
Cex_C4 == pc = "error" => err = raised[1]

(***************************************************************************)
(* Properties of one rolled term.                                          *)
(***************************************************************************)
\* entries of a roll that show the maximum face
MaxEntries(r) == Cardinality({k \in 1..Len(r.rolls) : r.rolls[k] = r.dice_size})

(***************************************************************************)
(* C6: a finished Standard-explode roll has one entry for each of its      *)
(* count dice and one more for each entry that shows the maximum face.     *)
(***************************************************************************)
Cex_C6 ==
    \A n \in 1..Len(rolls) :
        rolls[n].explode = "Standard" =>
            Len(rolls[n].rolls) = rolls[n].number_of_dice + MaxEntries(rolls[n])

(***************************************************************************)
(* C7: the total of a Compounding die is k * dice_size + r, for its k      *)
(* consecutive maximum draws followed by the draw r below the maximum.     *)
(***************************************************************************)
Cex_C7 ==
    (pc = "rolling" /\ opt.explode = "Compounding") =>
        \A n \in 1..Len(dieLog) :
            dieLog[n].k <= MaxK =>
                dieLog[n].total = dieLog[n].k * opt.dice_size + dieLog[n].r

(***************************************************************************)
(* C8: a Compounding roll of a die whose only face is its maximum comes to *)
(* an end.                                                                 *)
(***************************************************************************)
Cex_C8 ==
    (pc = "rolling" /\ opt.explode = "Compounding" /\ opt.dice_size = 1)
        ~> (pc # "rolling")

(***************************************************************************)
(* C9: a number val() returns is the exact sum of the kept totals, and a   *)
(* total of a compounding die is the exact sum of its draws.               *)
(***************************************************************************)
Cex_C9 ==
    /\ \A n \in 1..Len(vcalls) :
         vcalls[n].rep = vcalls[n].caps1 \o IntStr(KeptSum(rolls[n], 1)) \o vcalls[n].caps3
    /\ \A n \in 1..Len(dieLog) :
         dieLog[n].k <= MaxK =>
             dieLog[n].total = dieLog[n].k * opt.dice_size + dieLog[n].r

(***************************************************************************)
(* C10: a returned roll has count entries when it does not explode or      *)
(* compounds, and at least count entries under Standard explode.           *)
(***************************************************************************)
Thm_C10 ==
    \A n \in 1..Len(rolls) :
        /\ rolls[n].explode \in {"None", "Compounding"} =>
               Len(rolls[n].rolls) = rolls[n].number_of_dice
        /\ rolls[n].explode = "Standard" =>
               Len(rolls[n].rolls) >= rolls[n].number_of_dice

\* a die that compounded is one entry, next to a Standard roll that grew
Witness_C10 ==
    /\ Len(rolls) = 2
    /\ rolls[1].explode = "Compounding"
    /\ rolls[1].rolls[1] > rolls[1].dice_size
    /\ rolls[2].explode = "Standard"
    /\ Len(rolls[2].rolls) > rolls[2].number_of_dice

(***************************************************************************)
(* C11: for every term from_str returns (seen when the display callback    *)
(* has just pushed it), check_dice keeps a total v exactly when (min is    *)
(* absent or v > min) and (max is absent or v < max): both bounds are      *)
(* exclusive, so a total equal to a bound is filtered out; and a term      *)
(* whose bounds are looser or absent keeps every total this term keeps.    *)
(***************************************************************************)
\* bound b2 is at least as loose as b1, as a lower bound
LooserMin(b1, b2) == b2 = None \/ (b1 # None /\ b2 <= b1)

\* bound b2 is at least as loose as b1, as an upper bound
LooserMax(b1, b2) == b2 = None \/ (b1 # None /\ b2 >= b1)

Thm_C11 ==
    (pc = "display" /\ rolls # <<>>) =>
        LET r == rolls[Len(rolls)] IN
        \A v \in 0..UMax :
            /\ check_dice(r, v) <=>
                   /\ (r.min = None \/ v > r.min)
                   /\ (r.max = None \/ v < r.max)
            /\ \A lo \in {None} \cup (0..UMax), hi \in {None} \cup (0..UMax) :
                   (LooserMin(r.min, lo) /\ LooserMax(r.max, hi) /\ check_dice(r, v))
                       => check_dice([r EXCEPT !.min = lo, !.max = hi], v)

\* a returned term with both bounds whose totals are one equal to min, one
\* strictly between the bounds and one equal to max
Witness_C11 ==
    /\ pc = "done"
    /\ Len(rolls) = 1
    /\ rolls[1].min # None
    /\ rolls[1].max # None
    /\ \E a, b, c \in 1..Len(rolls[1].rolls) :
         /\ rolls[1].rolls[a] = rolls[1].min
         /\ rolls[1].rolls[b] = rolls[1].max
         /\ check_dice(rolls[1], rolls[1].rolls[c])
    /\ val(rolls[1]) = 2

(***************************************************************************)
(* C12: for every rolled term, dice() lists every total once, in the order *)
(* rolled, and the number the value pass puts in place of the term is the  *)
(* sum of exactly the totals dice() shows without strikethrough; a term    *)
(* without filters has nothing struck through and its value is the sum of  *)
(* all its totals.                                                         *)
(***************************************************************************)
\* the items of a rendered list "[a, b, c]", read back from the text
RECURSIVE ItemsFrom(_, _, _)
ItemsFrom(t, from, p) ==
    IF p > Len(t) THEN <<SubSeq(t, from, Len(t))>>
    ELSE IF t[p] = "," /\ p + 1 <= Len(t) /\ t[p + 1] = " "
    THEN <<SubSeq(t, from, p - 1)>> \o ItemsFrom(t, p + 2, p + 2)
    ELSE ItemsFrom(t, from, p + 1)

ListItems(t) ==
    IF Len(t) <= 2 THEN <<>> ELSE ItemsFrom(SubSeq(t, 2, Len(t) - 1), 1, 1)

Struck(item) == item # <<>> /\ Head(item) = "~"

\* the number an item shows, with or without its strikethrough wrapper
ItemNumber(item) ==
    IF Struck(item) THEN SubSeq(item, 3, Len(item) - 2) ELSE item

RECURSIVE PlainSum(_, _, _)
PlainSum(r, items, k) ==
    IF k > Len(r.rolls) THEN 0
    ELSE (IF Struck(items[k]) THEN 0 ELSE r.rolls[k]) + PlainSum(r, items, k + 1)

Cex_C12 ==
    \A n \in 1..Len(vcalls) :
        LET r == rolls[n]
            items == ListItems(dice(r))
        IN /\ Len(items) = Len(r.rolls)
           /\ \A k \in 1..Len(items) : ItemNumber(items[k]) = NatStr(r.rolls[k])
           /\ vcalls[n].rep
                = vcalls[n].caps1 \o IntStr(PlainSum(r, items, 1)) \o vcalls[n].caps3
           /\ (r.min = None /\ r.max = None) =>
                 \A k \in 1..Len(items) : ~Struck(items[k])

(***************************************************************************)
(* SpecParse: options::parse applied to one dice-term body, and the faces  *)
(* then drawn for the term.                                                *)
(***************************************************************************)
\* decimal numbers a body is written with
PNums ==
    { <<"0">>,
      <<"1">>,
      <<"2">>,
      <<"3">>,
      <<"4">>,
      <<"5">>,
      <<"6">>,
      <<"1", "5">>,
      <<"1", "6">>,
      <<"9", "9">> }

\* what follows the sides in a body of the grammar
\*   <count>d<sides>[!|!!][<|><bound>]
GoodSuffixes ==
    { <<>>,
      <<"!">>,
      <<"!", "!">>,
      <<"<", "2">>,
      <<">", "1">>,
      <<"!", "<", "3">>,
      <<"!", "!", ">", "1">>,
      <<"<", "3", ">", "1">>,
      <<">", "1", "!">>,
      <<"<", "2", "!", "!">> }

\* what follows the sides in a body outside the grammar
BadSuffixes ==
    { <<"x">>,
      <<"<">>,
      <<"<", "9", "9">>,
      <<"d", "9">>,
      <<"<", "F">>,
      <<"!", "x">> }

\* what follows the sides when explode markers are repeated or mixed
MarkerSuffixes ==
    { <<"!", "!", "!">>,
      <<"!", "!", "<", "3", "!">>,
      <<"!", "<", "3", "!", "!">>,
      <<"!", "<", "3", "!">> }

\* whole bodies outside the grammar
RawBodies ==
    { <<>>,
      <<" ">>,
      <<"d", "2">>,
      <<"2">>,
      <<"2", "d">>,
      <<" ", "2", "d", "3", " ">>,
      <<"2", " ", "d", "3">>,
      <<"x", "d", "2">>,
      <<"2", "d", "3", "d", "2">> }

PInputs ==
    { [kind |-> "term", count |-> c, sides |-> sd, suffix |-> sf] :
        c \in PNums, sd \in PNums \cup {<<"F">>},
        sf \in GoodSuffixes \cup BadSuffixes \cup MarkerSuffixes }
    \cup { [kind |-> "raw", count |-> <<>>, sides |-> <<>>, suffix |-> b] : b \in RawBodies }

BodyOf(in) ==
    IF in.kind = "term" THEN in.count \o <<"d">> \o in.sides \o in.suffix ELSE in.suffix

InitParse ==
    /\ msg = <<>>
    /\ build = "debug"
    /\ pc = "idle"
    /\ text = <<>>
    /\ rolls = <<>>
    /\ idx = 0
    /\ err = NoError
    /\ result_rolled = <<>>
    /\ result_valued = <<>>
    /\ cap = NoMatch
    /\ opt = DefaultOpts
    /\ acc = <<>>
    /\ dice_to_roll = 0
    /\ maxed = 0
    /\ i = 0
    /\ current_roll = 0
    /\ total = 0
    /\ rpc = "for"
    /\ dcalls = <<>>
    /\ vcalls = <<>>
    /\ raised = <<>>
    /\ kcur = 0
    /\ dieLog = <<>>
    /\ drew = {}
    /\ pin \in PInputs
    /\ pbody = BodyOf(pin)
    /\ ppc = "parse"
    /\ pres = NoOptions
    /\ pdrawn = <<>>
    /\ cmd = "none"
    /\ count = 0
    /\ cpc = "idle"
    /\ ci = 0
    /\ result = 0
    /\ messages = <<>>
    /\ counts = NoCounts
    /\ si = 0
    /\ said = <<>>
    /\ lines = <<>>
    /\ nrolls = 0
    /\ top = [c \in Cmd |-> NoOp]
    /\ tpc = [c \in Cmd |-> "idle"]
    /\ tcfg = [c \in Cmd |-> <<>>]
    /\ tloaded = [c \in Cmd |-> <<>>]
    /\ guild_data = NoEntry
    /\ saves = <<>>
    /\ inodes = <<>>
    /\ temp_loc = 0
    /\ loc = 0
    /\ stored = <<>>

\* options::parse returns
ParseBody ==
    /\ ppc = "parse"
    /\ pres' = parse(pbody)
    /\ ppc' = "roll"
    /\ UNCHANGED <<pin, pbody, pdrawn>>
    /\ UNCHANGED <<exprVars, rollVars, histVars, cmdVars, roleVars>>

\* the roller draws the first face of the next die of an accepted term;
\* a rejected term is never rolled
DrawFace ==
    /\ ppc = "roll"
    /\ pres.ok
    /\ Len(pdrawn) < pres.number_of_dice
    /\ \E f \in 1..Len(pres.dice_sides) :
         pdrawn' = Append(pdrawn, pres.dice_sides[f])
    /\ UNCHANGED <<pin, pbody, ppc, pres>>
    /\ UNCHANGED <<exprVars, rollVars, histVars, cmdVars, roleVars>>

NextParse == ParseBody \/ DrawFace

SpecParse == InitParse /\ [][NextParse]_vars

\* the number a run of decimal digits denotes, and the faces a body asks for
WrittenCount(in) == DigitsValue(in.count)
WrittenFaces(in) == IF in.sides = <<"F">> THEN 3 ELSE DigitsValue(in.sides)

BangCount(b) == Cardinality({k \in 1..Len(b) : b[k] = "!"})

HasDoubleBang(b) == \E k \in 1..(Len(b) - 1) : b[k] = "!" /\ b[k + 1] = "!"

Cex_C13 ==
    (ppc = "roll" /\ pres.ok) =>
        /\ BangCount(pbody) = 0 => pres.explode = "None"
        /\ BangCount(pbody) = 1 => pres.explode = "Standard"
        /\ HasDoubleBang(pbody) => pres.explode = "Compounding"

(***************************************************************************)
(* C14: a term `NdF` is accepted and rolled with the faces -3, 0, 3 and a  *)
(* term `NdK` with the faces 1..K: every total of a term `NdF` is -3, 0 or *)
(* 3 and every total of a term `NdK` lies in 1..K.                         *)
(***************************************************************************)
\* a body <digits>d<digits>, and a body <digits>dF
IsPlainBody(b) ==
    \E d \in 2..(Len(b) - 1) :
        /\ b[d] = "d"
        /\ AllDigits(SubSeq(b, 1, d - 1))
        /\ AllDigits(SubSeq(b, d + 1, Len(b)))

IsFudgeBody(b) ==
    /\ Len(b) >= 3
    /\ AllDigits(SubSeq(b, 1, Len(b) - 2))
    /\ b[Len(b) - 1] = "d"
    /\ b[Len(b)] = "F"

\* the callback invocations up to the k-th that returned a roll
OkCalls(calls, k) == Cardinality({j \in 1..k : calls[j].ok})

Cex_C14 ==
    \A k \in 1..Len(dcalls) :
        LET b == dcalls[k].body
            n == OkCalls(dcalls, k)
        IN /\ (IsFudgeBody(b) /\ ParseU32(SubSeq(b, 1, Len(b) - 2)) \in 1..UMax) =>
                 /\ dcalls[k].ok
                 /\ \A j \in 1..Len(rolls[n].rolls) : rolls[n].rolls[j] \in {-3, 0, 3}
           /\ (IsPlainBody(b) /\ dcalls[k].ok) =>
                 \A j \in 1..Len(rolls[n].rolls) : rolls[n].rolls[j] \in 1..rolls[n].dice_size

(***************************************************************************)
(* C15: the loop of regex_replace_all_overlapping comes to an end because  *)
(* the passes that change the text are bounded: in either pass of          *)
(* roll_expressions, whatever the callback returns (the empty string on a  *)
(* parse error included), the text is changed at most as many times as the *)
(* original text has dice terms.                                           *)
(***************************************************************************)
\* the replacements of a pass that put a different text in place of the match
Changing(calls) ==
    Cardinality({k \in 1..Len(calls) :
                    calls[k].rep # calls[k].caps1 \o calls[k].body \o calls[k].caps3})

Cex_C15 ==
    /\ Changing(dcalls) <= Len(OrigTerms(msg))
    /\ Changing(vcalls) <= Len(OrigTerms(msg))

(***************************************************************************)
(* SpecCmd: commands/dice.rs -- roll_many and roll_bincount, one roll and  *)
(* one say at a time.                                                      *)
(***************************************************************************)
InitCmd ==
    /\ msg = <<>>
    /\ build = "debug"
    /\ pc = "idle"
    /\ text = <<>>
    /\ rolls = <<>>
    /\ idx = 0
    /\ err = NoError
    /\ result_rolled = <<>>
    /\ result_valued = <<>>
    /\ cap = NoMatch
    /\ opt = DefaultOpts
    /\ acc = <<>>
    /\ dice_to_roll = 0
    /\ maxed = 0
    /\ i = 0
    /\ current_roll = 0
    /\ total = 0
    /\ rpc = "for"
    /\ dcalls = <<>>
    /\ vcalls = <<>>
    /\ raised = <<>>
    /\ kcur = 0
    /\ dieLog = <<>>
    /\ drew = {}
    /\ pin = <<>>
    /\ pbody = <<>>
    /\ ppc = "idle"
    /\ pres = NoOptions
    /\ pdrawn = <<>>
    /\ cmd \in {"roll_many", "roll_bincount"}
    /\ count \in Counts(cmd)
    /\ cpc = "start"
    /\ ci = 0
    /\ result = 0
    /\ messages = <<>>
    /\ counts = NoCounts
    /\ si = 0
    /\ said = <<>>
    /\ lines = <<>>
    /\ nrolls = 0
    /\ top = [c \in Cmd |-> NoOp]
    /\ tpc = [c \in Cmd |-> "idle"]
    /\ tcfg = [c \in Cmd |-> <<>>]
    /\ tloaded = [c \in Cmd |-> <<>>]
    /\ guild_data = NoEntry
    /\ saves = <<>>
    /\ inodes = <<>>
    /\ temp_loc = 0
    /\ loc = 0
    /\ stored = <<>>

\* the count roll_many refuses: count > 100
ManyOverLimit(n) == n > 100

\* the count roll_bincount refuses: count > 500
BinOverLimit(n) == n > 500

\* a line that fills the running message starts a new one
\*   if result.len() + next_line.len() >= MESSAGE_CODE_LIMIT { messages.push(result); result = "" }
\*   result += next_line
LineFillsMessage(res, len) == res + len >= MESSAGE_CODE_LIMIT

PushLine(res, msgs, len) ==
    IF LineFillsMessage(res, len)
    THEN [result |-> len, messages |-> Append(msgs, res)]
    ELSE [result |-> res + len, messages |-> msgs]

\* if !result.is_empty() { messages.push(result) }
PushRest(res, msgs) == IF res # 0 THEN Append(msgs, res) ELSE msgs

\* if messages.len() > 3 { return Err(..) }
ManyTooMany(msgs) == Len(msgs) > 3

\* str::trim of a message: every line ends with "\n" and starts with a digit
Trimmed(len) == IF len = 0 THEN 0 ELSE len - 1

\* roll_many up to the loop: the count is parsed and compared with the limit
ManyStart ==
    /\ cpc = "start"
    /\ cmd = "roll_many"
    /\ IF ManyOverLimit(count)
       THEN /\ cpc' = "err"
            /\ UNCHANGED ci
       ELSE /\ cpc' = "loop"
            /\ ci' = 1
    /\ UNCHANGED <<cmd, count, result, messages, counts, si, said, lines, nrolls>>
    /\ UNCHANGED <<exprVars, rollVars, histVars, parseVars, roleVars>>

\* one turn of `for i in 1..=count`: roll_expression fails and the command
\* returns the error, or its line is added
ManyRoll ==
    /\ cpc = "loop"
    /\ cmd = "roll_many"
    /\ ci <= count
    /\ nrolls' = nrolls + 1
    /\ \/ /\ cpc' = "err"
          /\ UNCHANGED <<ci, result, messages, lines>>
       \/ \E len \in LineLens :
            /\ result' = PushLine(result, messages, len).result
            /\ messages' = PushLine(result, messages, len).messages
            /\ lines' = Append(lines, len)
            /\ ci' = ci + 1
            /\ cpc' = cpc
    /\ UNCHANGED <<cmd, count, counts, si, said>>
    /\ UNCHANGED <<exprVars, rollVars, histVars, parseVars, roleVars>>

\* after the loop: the rest is pushed and the number of messages checked
ManyFinish ==
    /\ cpc = "loop"
    /\ cmd = "roll_many"
    /\ ci > count
    /\ messages' = PushRest(result, messages)
    /\ IF ManyTooMany(PushRest(result, messages))
       THEN /\ cpc' = "err"
            /\ UNCHANGED si
       ELSE /\ cpc' = "send"
            /\ si' = 1
    /\ UNCHANGED <<cmd, count, ci, result, counts, said, lines, nrolls>>
    /\ UNCHANGED <<exprVars, rollVars, histVars, parseVars, roleVars>>

\* roll_bincount up to the loop
BinStart ==
    /\ cpc = "start"
    /\ cmd = "roll_bincount"
    /\ IF BinOverLimit(count)
       THEN cpc' = "err"
       ELSE cpc' = "loop"
    /\ UNCHANGED <<cmd, count, ci, result, messages, counts, si, said, lines, nrolls>>
    /\ UNCHANGED <<exprVars, rollVars, histVars, parseVars, roleVars>>

\* one turn of `for _ in 0..count`: roll_expression_value fails and the
\* command returns the error, or the entry of its value is incremented
BinRoll ==
    /\ cpc = "loop"
    /\ cmd = "roll_bincount"
    /\ ci < count
    /\ nrolls' = nrolls + 1
    /\ \/ /\ cpc' = "err"
          /\ UNCHANGED <<ci, counts>>
       \/ \E k \in 1..Len(BinValues) :
            /\ counts' = [counts EXCEPT ![k] = @ + 1]
            /\ ci' = ci + 1
            /\ cpc' = cpc
    /\ UNCHANGED <<cmd, count, result, messages, si, said, lines>>
    /\ UNCHANGED <<exprVars, rollVars, histVars, parseVars, roleVars>>

\* the length of format!("{}: {}\n", k, v)
BinLineLen(k, v) == Len(IntStr(k)) + 2 + Len(IntStr(v)) + 1

\* the lines of counts.iter().sorted(), from the k-th key on
RECURSIVE BinLines(_, _)
BinLines(cs, k) ==
    IF k > Len(BinValues) THEN <<>>
    ELSE (IF cs[k] > 0 THEN <<BinLineLen(BinValues[k], cs[k])>> ELSE <<>>)
         \o BinLines(cs, k + 1)

\* the loop over the lines
RECURSIVE PushLines(_, _, _)
PushLines(res, msgs, ls) ==
    IF ls = <<>> THEN [result |-> res, messages |-> msgs]
    ELSE PushLines(PushLine(res, msgs, Head(ls)).result,
                   PushLine(res, msgs, Head(ls)).messages, Tail(ls))

\* after the loop: the lines are made and split, the rest is pushed
BinFinish ==
    /\ cpc = "loop"
    /\ cmd = "roll_bincount"
    /\ ci >= count
    /\ LET ls == BinLines(counts, 1)
           p == PushLines(0, <<>>, ls)
       IN /\ lines' = ls
          /\ result' = p.result
          /\ messages' = PushRest(p.result, p.messages)
    /\ cpc' = "send"
    /\ si' = 1
    /\ UNCHANGED <<cmd, count, ci, counts, said, nrolls>>
    /\ UNCHANGED <<exprVars, rollVars, histVars, parseVars, roleVars>>

\* one turn of `for message in messages`: say succeeds, or fails and the
\* command returns the error
Say ==
    /\ cpc = "send"
    /\ si <= Len(messages)
    /\ \E delivered \in BOOLEAN :
         /\ said' = Append(said, [len |-> Trimmed(messages[si]), ok |-> delivered])
         /\ IF delivered
            THEN /\ si' = si + 1
                 /\ cpc' = cpc
            ELSE /\ cpc' = "err"
                 /\ UNCHANGED si
    /\ UNCHANGED <<cmd, count, ci, result, messages, counts, lines, nrolls>>
    /\ UNCHANGED <<exprVars, rollVars, histVars, parseVars, roleVars>>

\* every message was said: Ok(())
CmdDone ==
    /\ cpc = "send"
    /\ si > Len(messages)
    /\ cpc' = "ok"
    /\ UNCHANGED <<cmd, count, ci, result, messages, counts, si, said, lines, nrolls>>
    /\ UNCHANGED <<exprVars, rollVars, histVars, parseVars, roleVars>>

NextCmd ==
    \/ ManyStart
    \/ ManyRoll
    \/ ManyFinish
    \/ BinStart
    \/ BinRoll
    \/ BinFinish
    \/ Say
    \/ CmdDone

SpecCmd == InitCmd /\ [][NextCmd]_vars

(***************************************************************************)
(* C16: roll_many rejects a count above 100 before any roll; what it hands *)
(* to say is at most three messages, each non-empty and shorter than the   *)
(* message limit; and when the lines do not fit (a line is not shorter     *)
(* than the limit, or the lines are longer than three messages) it returns *)
(* an error and says nothing.                                              *)
(***************************************************************************)
RECURSIVE SumSeq(_)
SumSeq(q) == IF q = <<>> THEN 0 ELSE Head(q) + SumSeq(Tail(q))

\* lines that no three messages shorter than the limit can hold
DoNotFit(ls) ==
    \/ \E k \in 1..Len(ls) : ls[k] >= MESSAGE_CODE_LIMIT
    \/ SumSeq(ls) > 3 * MESSAGE_CODE_LIMIT

Cex_C16 ==
    cmd = "roll_many" =>
        /\ count > 100 => (nrolls = 0 /\ said = <<>> /\ cpc \in {"start", "err"})
        /\ Len(said) <= 3
        /\ \A k \in 1..Len(said) :
             said[k].len > 0 /\ said[k].len < MESSAGE_CODE_LIMIT
        /\ DoNotFit(lines) => (said = <<>> /\ cpc \in {"loop", "err"})

(***************************************************************************)
(* C17: roll_bincount makes at most 500 rolls, and none when the count is  *)
(* above 500; what it hands to say is at most three messages; and when the *)
(* lines of the sorted counts make more than three messages it returns an  *)
(* error and says none of them.                                            *)
(***************************************************************************)
Cex_C17 ==
    cmd = "roll_bincount" =>
        /\ nrolls <= 500
        /\ count > 500 => (nrolls = 0 /\ said = <<>> /\ cpc \in {"start", "err"})
        /\ Len(said) <= 3
        /\ (cpc # "loop" /\ Len(messages) > 3) => (cpc = "err" /\ said = <<>>)

(***************************************************************************)
(* C18: rolling a Standard-explode term comes to an end: a further wave is *)
(* rolled only for the maxima of the wave before it, and the roll of a die *)
(* whose only face is its maximum (`1d1!`) stops or fails.                 *)
(***************************************************************************)
Cex_C18 ==
    /\ []((pc \in {"rolling", "beyond"} /\ opt.explode = "Standard") => dice_to_roll > 0)
    /\ (pc \in {"rolling", "beyond"} /\ opt.explode = "Standard" /\ opt.dice_size = 1)
           ~> (pc \notin {"rolling", "beyond"})

(***************************************************************************)
(* C19: a Standard-explode roll and a Compounding roll of the same count   *)
(* and die that are fed the same stream of draws consume the same draws,   *)
(* and the sums of their totals are equal.                                 *)
(***************************************************************************)
\* k copies of the face f
RECURSIVE Copies(_, _)
Copies(k, f) == IF k = 0 THEN <<>> ELSE <<f>> \o Copies(k - 1, f)

\* the draws of a Compounding roll, from the log of its dice: for each die
\* its maximum draws and the draw that ended them
RECURSIVE LogDraws(_, _)
LogDraws(log, size) ==
    IF log = <<>> THEN <<>>
    ELSE Copies(Head(log).k, size) \o <<Head(log).r>> \o LogDraws(Tail(log), size)

\* the draws of a Standard roll are its entries
StandardDraws(r) == r.rolls

IsPrefix(a, b) == Len(a) <= Len(b) /\ SubSeq(b, 1, Len(a)) = a

Cex_C19 ==
    ( /\ pc \in {"display", "value", "done"}
      /\ Len(rolls) = 2
      /\ rolls[1].explode = "Standard"
      /\ rolls[2].explode = "Compounding"
      /\ rolls[1].number_of_dice = rolls[2].number_of_dice
      /\ rolls[1].dice_size = rolls[2].dice_size
      /\ Len(dieLog) = Len(rolls[2].rolls)
      /\ \A n \in 1..Len(dieLog) : dieLog[n].k <= MaxK )
    => LET s1 == StandardDraws(rolls[1])
           s2 == LogDraws(dieLog, rolls[2].dice_size)
       IN (IsPrefix(s1, s2) \/ IsPrefix(s2, s1)) =>
              /\ s1 = s2
              /\ SumSeq(rolls[1].rolls) = SumSeq(rolls[2].rolls)

(***************************************************************************)
(* C20: a range error of options::parse carries the limit that was         *)
(* violated and the offending value: the side count when the sides are at  *)
(* or above MAX_DICE_SIDES, the count when the count is at or above        *)
(* MAX_ROLLED_DICE.                                                        *)
(***************************************************************************)
Cex_C20 ==
    (ppc = "roll" /\ ~pres.ok /\ pin.kind = "term" /\ pin.suffix \in GoodSuffixes) =>
        /\ pres.error.kind = "Must have < {} dice sides to roll" =>
               /\ pres.error.limit = MAX_DICE_SIDES
               /\ pres.error.tried = WrittenFaces(pin)
        /\ pres.error.kind = "Must have < {} dice to roll" =>
               /\ pres.error.limit = MAX_ROLLED_DICE
               /\ pres.error.tried = WrittenCount(pin)

(***************************************************************************)
(* SpecRoles: two role-toggle commands of one guild, each in its own task  *)
(* of the multi-threaded runtime, and the blocking tasks that save_data    *)
(* spawns.  A file is written in Parts pieces, each at the offset of the   *)
(* writer's own handle; the temp path is the same for every save of the    *)
(* guild.                                                                  *)
(***************************************************************************)
\* the pieces serde_json::to_writer_pretty writes a value in
Parts == 2

Piece(v, n) == [val |-> v, part |-> n]

Hole == [val |-> <<>>, part |-> 0]

\* the content of a file that holds the value v, complete
Complete(v) == [n \in 1..Parts |-> Piece(v, n)]

\* a write of one piece at offset off of a file
WriteAt(content, off, piece) ==
    [n \in 1..(IF off + 1 > Len(content) THEN off + 1 ELSE Len(content)) |->
        IF n = off + 1 THEN piece
        ELSE IF n <= Len(content) THEN content[n]
        ELSE Hole]

\* serde_json::from_reader on a file's content
Readable(content) == \E v \in {content[n].val : n \in 1..Len(content)} : content = Complete(v)

FromReader(content) == content[1].val

\* cfg.roles.retain(..); cfg.roles.push(..) of add_role_toggle
add_role_toggle(cfg, role, emoji) ==
    Append(SelectSeq(cfg, LAMBDA f : f[1] # role /\ f[2] # emoji), <<role, emoji>>)

\* cfg.roles.retain(..) of remove_role_toggle
remove_role_toggle(cfg, emoji) ==
    SelectSeq(cfg, LAMBDA f : f[2] # emoji)

\* the change a command makes to the configuration it got
Toggle(op, cfg) ==
    IF op.kind = "add" THEN add_role_toggle(cfg, op.role, op.emoji)
    ELSE remove_role_toggle(cfg, op.emoji)

\* the task save_data spawns
SaveTask(data) == [data |-> data, spc |-> "create", file |-> 0, off |-> 0]

InitRoles ==
    /\ msg = <<>>
    /\ build = "debug"
    /\ pc = "idle"
    /\ text = <<>>
    /\ rolls = <<>>
    /\ idx = 0
    /\ err = NoError
    /\ result_rolled = <<>>
    /\ result_valued = <<>>
    /\ cap = NoMatch
    /\ opt = DefaultOpts
    /\ acc = <<>>
    /\ dice_to_roll = 0
    /\ maxed = 0
    /\ i = 0
    /\ current_roll = 0
    /\ total = 0
    /\ rpc = "for"
    /\ dcalls = <<>>
    /\ vcalls = <<>>
    /\ raised = <<>>
    /\ kcur = 0
    /\ dieLog = <<>>
    /\ drew = {}
    /\ pin = <<>>
    /\ pbody = <<>>
    /\ ppc = "idle"
    /\ pres = NoOptions
    /\ pdrawn = <<>>
    /\ cmd = "none"
    /\ count = 0
    /\ cpc = "idle"
    /\ ci = 0
    /\ result = 0
    /\ messages = <<>>
    /\ counts = NoCounts
    /\ si = 0
    /\ said = <<>>
    /\ lines = <<>>
    /\ nrolls = 0
    /\ top \in [Cmd -> Ops]
    /\ tpc = [c \in Cmd |-> "get"]
    /\ tcfg = [c \in Cmd |-> <<>>]
    /\ tloaded = [c \in Cmd |-> <<>>]
    /\ stored \in StoredConfigs
    /\ guild_data \in {NoEntry, Entry(stored)}
    /\ \/ /\ inodes = <<Complete(stored)>>
          /\ loc = 1
       \/ /\ stored = <<>>
          /\ inodes = <<>>
          /\ loc = 0
    /\ temp_loc = 0
    /\ saves = <<>>

OtherVars == <<exprVars, rollVars, histVars, parseVars, cmdVars>>

\* get_guild_data: the lookup under the read lock
GetRead(c) ==
    /\ tpc[c] = "get"
    /\ IF guild_data.some
       THEN /\ tcfg' = [tcfg EXCEPT ![c] = guild_data.roles]
            /\ tpc' = [tpc EXCEPT ![c] = "modify"]
       ELSE /\ tpc' = [tpc EXCEPT ![c] = "load"]
            /\ UNCHANGED tcfg
    /\ UNCHANGED <<top, tloaded, guild_data, saves, inodes, temp_loc, loc, stored>>
    /\ UNCHANGED OtherVars

\* get_guild_data: load_data; a missing file is the default, a file that
\* does not parse ends the command with the error
GetLoad(c) ==
    /\ tpc[c] = "load"
    /\ IF loc = 0
       THEN /\ tloaded' = [tloaded EXCEPT ![c] = <<>>]
            /\ tpc' = [tpc EXCEPT ![c] = "insert"]
       ELSE IF Readable(inodes[loc])
       THEN /\ tloaded' = [tloaded EXCEPT ![c] = FromReader(inodes[loc])]
            /\ tpc' = [tpc EXCEPT ![c] = "insert"]
       ELSE /\ tpc' = [tpc EXCEPT ![c] = "failed"]
            /\ UNCHANGED tloaded
    /\ UNCHANGED <<top, tcfg, guild_data, saves, inodes, temp_loc, loc, stored>>
    /\ UNCHANGED OtherVars

\* get_guild_data: entry(id).or_insert_with(|| loaded).clone() under the
\* write lock
GetInsert(c) ==
    /\ tpc[c] = "insert"
    /\ guild_data' = IF guild_data.some THEN guild_data ELSE Entry(tloaded[c])
    /\ tcfg' = [tcfg EXCEPT ![c] = guild_data'.roles]
    /\ tpc' = [tpc EXCEPT ![c] = "modify"]
    /\ UNCHANGED <<top, tloaded, saves, inodes, temp_loc, loc, stored>>
    /\ UNCHANGED OtherVars

\* the command changes its cfg and calls set_guild_data, which first calls
\* save_data; the handle of the spawned task is dropped
SetSave(c) ==
    /\ tpc[c] = "modify"
    /\ tcfg' = [tcfg EXCEPT ![c] = Toggle(top[c], tcfg[c])]
    /\ saves' = Append(saves, SaveTask(tcfg'[c]))
    /\ tpc' = [tpc EXCEPT ![c] = "write"]
    /\ UNCHANGED <<top, tloaded, guild_data, inodes, temp_loc, loc, stored>>
    /\ UNCHANGED OtherVars

\* set_guild_data: dat.insert(id, data) under the write lock
SetInsert(c) ==
    /\ tpc[c] = "write"
    /\ guild_data' = Entry(tcfg[c])
    /\ tpc' = [tpc EXCEPT ![c] = "tail"]
    /\ UNCHANGED <<top, tcfg, tloaded, saves, inodes, temp_loc, loc, stored>>
    /\ UNCHANGED OtherVars

\* update_or_create_toggle_message(ctx, msg, false): the guild has an entry
\* by now, there is no current_role_message, nothing is created
UpdateToggleMessage(c) ==
    /\ tpc[c] = "tail"
    /\ guild_data.some
    /\ tpc' = [tpc EXCEPT ![c] = "done"]
    /\ UNCHANGED <<top, tcfg, tloaded, guild_data, saves, inodes, temp_loc, loc, stored>>
    /\ UNCHANGED OtherVars

\* save_data_replace: File::create(&temp_loc) makes the file or truncates
\* the one that is there
SaveCreate(t) ==
    /\ saves[t].spc = "create"
    /\ IF temp_loc = 0
       THEN /\ inodes' = Append(inodes, <<>>)
            /\ temp_loc' = Len(inodes) + 1
       ELSE /\ inodes' = [inodes EXCEPT ![temp_loc] = <<>>]
            /\ UNCHANGED temp_loc
    /\ saves' = [saves EXCEPT ![t] = [@ EXCEPT !.spc = "write", !.file = temp_loc', !.off = 0]]
    /\ UNCHANGED <<top, tpc, tcfg, tloaded, guild_data, loc, stored>>
    /\ UNCHANGED OtherVars

\* save_data_replace: to_writer_pretty writes the next piece through the
\* task's handle; after the last piece sync_all and the close follow
SaveWrite(t) ==
    /\ saves[t].spc = "write"
    /\ inodes' = [inodes EXCEPT ![saves[t].file] =
                      WriteAt(@, saves[t].off, Piece(saves[t].data, saves[t].off + 1))]
    /\ saves' = [saves EXCEPT ![t] =
                     [@ EXCEPT !.off = @ + 1,
                               !.spc = IF saves[t].off + 1 = Parts THEN "rename" ELSE "write"]]
    /\ UNCHANGED <<top, tpc, tcfg, tloaded, guild_data, temp_loc, loc, stored>>
    /\ UNCHANGED OtherVars

\* save_data_replace: std::fs::rename(temp_loc, loc); without a file at
\* temp_loc it fails and save_data logs the error
SaveRename(t) ==
    /\ saves[t].spc = "rename"
    /\ IF temp_loc = 0
       THEN /\ saves' = [saves EXCEPT ![t] = [@ EXCEPT !.spc = "failed"]]
            /\ UNCHANGED <<temp_loc, loc>>
       ELSE /\ saves' = [saves EXCEPT ![t] = [@ EXCEPT !.spc = "done"]]
            /\ loc' = temp_loc
            /\ temp_loc' = 0
    /\ UNCHANGED <<top, tpc, tcfg, tloaded, guild_data, inodes, stored>>
    /\ UNCHANGED OtherVars

NextRoles ==
    \/ \E c \in Cmd : GetRead(c)
    \/ \E c \in Cmd : GetLoad(c)
    \/ \E c \in Cmd : GetInsert(c)
    \/ \E c \in Cmd : SetSave(c)
    \/ \E c \in Cmd : SetInsert(c)
    \/ \E c \in Cmd : UpdateToggleMessage(c)
    \/ \E t \in 1..Len(saves) : SaveCreate(t)
    \/ \E t \in 1..Len(saves) : SaveWrite(t)
    \/ \E t \in 1..Len(saves) : SaveRename(t)

SpecRoles == InitRoles /\ [][NextRoles]_vars

\* every command has returned
CommandsReturned == \A c \in Cmd : tpc[c] \in {"done", "failed"}

\* every task save_data spawned has finished
SavesFinished == \A t \in 1..Len(saves) : saves[t].spc \in {"done", "failed"}

\* the configurations the two commands leave when one runs after the other
SerialOutcomes ==
    { Toggle(top[2], Toggle(top[1], stored)), Toggle(top[1], Toggle(top[2], stored)) }

(***************************************************************************)
(* C21: when two role-toggle commands of one guild run at the same time    *)
(* and both have returned, the guild's configuration reflects both: it is  *)
(* what the two commands leave when one of them runs after the other.      *)
(***************************************************************************)
Cex_C21 ==
    (\A c \in Cmd : tpc[c] = "done") =>
        /\ guild_data.some
        /\ guild_data.roles \in SerialOutcomes

(***************************************************************************)
(* C22: once the commands have returned and every save task has finished,  *)
(* the guild's file holds, complete, the value of the last set_guild_data  *)
(* call, and the cache holds that value too.                               *)
(***************************************************************************)
Cex_C22 ==
    (CommandsReturned /\ SavesFinished /\ saves # <<>>) =>
        LET last == saves[Len(saves)].data
        IN /\ guild_data = Entry(last)
           /\ loc # 0
           /\ inodes[loc] = Complete(last)


=============================================================================
